---- MODULE Spec2Model ----
(***************************************************************************)
(* Model of stream_power_erosion (src/SPLM.ipynb, lines 81-123): the       *)
(* explicit upwind integration of the stream-power law with its embedded   *)
(* CFL timestep check.                                                     *)
(*                                                                         *)
(* Real numbers are exact rationals <<num, den>> with den > 0 in lowest    *)
(* terms.  The IEEE non-finite values numpy produces on a division by zero *)
(* are the pairs with den = 0: <<1,0>> = +inf, <<-1,0>> = -inf and         *)
(* <<0,0>> = nan.  Floating-point rounding is not modelled.                *)
(***************************************************************************)
EXTENDS Integers, Sequences, FiniteSets, TLC

VARIABLES z, A, dx, total_time, dt, U, K, m, n,
          v, dt_stable, nt_iterations, t, pc, err,
          z_in, dt_req, warned, calls, prev

vars == <<z, A, dx, total_time, dt, U, K, m, n,
          v, dt_stable, nt_iterations, t, pc, err,
          z_in, dt_req, warned, calls, prev>>

-----------------------------------------------------------------------------
(* Bounds of the model *)

MaxLen == 3
MaxCalls == 2

(* a run is followed while the numerators and denominators of the profile *)
(* stay within MaxMag                                                     *)
MaxMag == 32

(* The stability margin 0.95 of line 111, as the fraction 19/20 *)
CflNum == 19
CflDen == 20

-----------------------------------------------------------------------------
(* Arithmetic on rationals and IEEE non-finite values *)

Abs(i) == IF i < 0 THEN -i ELSE i

Sgn(i) == IF i < 0 THEN -1 ELSE IF i = 0 THEN 0 ELSE 1

RECURSIVE Gcd(_, _)
Gcd(a, b) == IF b = 0 THEN a ELSE Gcd(b, a % b)

Norm(p) ==
  IF p[2] = 0 THEN <<Sgn(p[1]), 0>>
  ELSE LET s == IF p[2] < 0 THEN -1 ELSE 1
           g == Gcd(Abs(p[1]), Abs(p[2]))
       IN  <<(s * p[1]) \div g, (s * p[2]) \div g>>

R(i) == <<i, 1>>

IsFinite(p) == p[2] # 0

IsNan(p) == p[1] = 0 /\ p[2] = 0

RAdd(p, q) ==
  IF p[2] = 0 /\ q[2] = 0
  THEN (IF p[1] = q[1] THEN p ELSE <<0, 0>>)
  ELSE IF p[2] = 0 THEN p
  ELSE IF q[2] = 0 THEN q
  ELSE LET g == Gcd(p[2], q[2])
       IN  Norm(<<p[1] * (q[2] \div g) + q[1] * (p[2] \div g), (p[2] \div g) * q[2]>>)

RNeg(p) == <<-p[1], p[2]>>

RSub(p, q) == RAdd(p, RNeg(q))

RMul(p, q) == Norm(<<p[1] * q[1], p[2] * q[2]>>)

Recip(q) ==
  IF q[1] = 0 THEN (IF q[2] = 0 THEN <<0, 0>> ELSE <<1, 0>>)
  ELSE Norm(<<Sgn(q[1]) * q[2], Abs(q[1])>>)

RDiv(p, q) == RMul(p, Recip(q))

RAbs(p) == <<Abs(p[1]), p[2]>>

RECURSIVE RPow(_, _)
RPow(p, k) == IF k = 0 THEN R(1) ELSE RMul(p, RPow(p, k - 1))

(* x rounded to the nearest integer, halves away from zero *)
RoundNearest(p) == Sgn(p[1]) * ((2 * Abs(p[1]) + p[2]) \div (2 * p[2]))

(* int(x) of a finite x: truncation toward zero *)
Trunc(p) == Sgn(p[1]) * (Abs(p[1]) \div p[2])

(* a ** e for a drainage area a (a perfect square) and e = 0, 1/2 or 1 *)
ISqrt(a) == CHOOSE r \in 0..a : r * r = a

AreaPow(a, e) ==
  IF e = <<0, 1>> THEN 1
  ELSE IF e = <<1, 2>> THEN ISqrt(a)
  ELSE a

RECURSIVE SeqMax(_)
SeqMax(s) ==
  IF Len(s) = 1 THEN s[1]
  ELSE LET r == SeqMax(Tail(s)) IN IF s[1] > r THEN s[1] ELSE r

-----------------------------------------------------------------------------
(* Inputs of a call *)

(* Elevation profiles: ramps falling by s per node toward the outlet,     *)
(* which sits at elevation b (s = 0: the flat profile np.zeros_like(x))   *)
Ramp(L, s, b) == [i \in 1..L |-> R(b + s * (L - i))]

SlopeSet == {0, 2}

BaseSet == {0, 1}

ZSet == {Ramp(L, s, b) : L \in 1..MaxLen, s \in SlopeSet, b \in BaseSet}

(* Drainage-area profiles (perfect squares): all zero, uniform, growing   *)
(* downstream from 0 like x**1.8 with x = 0 at the head, and non-zero at  *)
(* the head only                                                          *)
AreaZero(L) == [i \in 1..L |-> 0]

AreaUnit(L) == [i \in 1..L |-> 1]

AreaGrow(L) == [i \in 1..L |-> (i - 1) * (i - 1)]

AreaHead(L) == [i \in 1..L |-> IF i = 1 THEN 4 ELSE 0]

ASet == UNION {{AreaZero(L), AreaUnit(L), AreaGrow(L), AreaHead(L)} : L \in 0..MaxLen}

DxSet == {-2, 0, 2, 4}

DtSet == {-1, 0, 1, 2}

TimeSet == {-2, 0, 1, 3}

USet == {0, 1}

KSet == {0, 1}

MSet == {<<0, 1>>, <<1, 2>>, <<1, 1>>}

NSet == {1, 2}

-----------------------------------------------------------------------------
(* The function, line by line *)

(* the velocity with its sign lost: v = K*A**m *)
VelocityUnsigned(k, a, e) == [i \in 1..Len(a) |-> k * AreaPow(a[i], e)]

(* line 109: v = -K*A**m *)
Velocity(k, a, e) == [i \in 1..Len(a) |-> -k * AreaPow(a[i], e)]

(* max(abs(v)) of line 111, for a non-empty v *)
MaxAbs(vel) == SeqMax([i \in 1..Len(vel) |-> Abs(vel[i])])

(* the bound with the division skipped when the maximum is zero *)
CflBoundClamped(d, vel) ==
  IF MaxAbs(vel) = 0 THEN RMul(<<CflNum, CflDen>>, R(d))
  ELSE RDiv(RMul(<<CflNum, CflDen>>, R(d)), R(MaxAbs(vel)))

(* 0.95*dx/max(abs(v)) of line 111, before int() *)
CflBound(d, vel) == RDiv(RMul(<<CflNum, CflDen>>, R(d)), R(MaxAbs(vel)))

(* total_time/dt of line 119, before int() *)
TimeRatio(tt, d) == RDiv(R(tt), R(d))

(* an iteration count that includes the end time: int(total_time/dt) + 1 *)
IterationCountInclusive(tt, d) == Trunc(TimeRatio(tt, d)) + 1

(* int(total_time/dt) of line 119 *)
IterationCount(tt, d) == Trunc(TimeRatio(tt, d))

(* a loop that makes one pass too many *)
LoopRunsOffByOne(k, nt) == k <= nt

(* range(nt_iterations) of line 120 still has an element after k passes *)
LoopRuns(k, nt) == k < nt

(* numpy broadcasting of line 121: v[1:] (length La-1) against             *)
(* z[1:]-z[:-1] (length Lz-1), added in place into z[:-1]                  *)
Broadcastable(La, Lz) == La = Lz \/ La = 2

(* the velocity of the node itself, v[:-1], in place of v[1:] *)
VNextOwn(vel, i) == IF Len(vel) = 2 THEN vel[2] ELSE vel[i]

(* v[1:] broadcast to the non-outlet nodes 1..Lz-1 *)
VNext(vel, i) == IF Len(vel) = 2 THEN vel[2] ELSE vel[i + 1]

(* line 121 for node i, every z on the right read from the profile zz *)
Erosion(zz, vel, d, dd, e, i) ==
  RMul(RMul(R(VNext(vel, i)), R(d)),
       RPow(RDiv(RAbs(RSub(zz[i + 1], zz[i])), R(dd)), e))

(* the nodes written by z[:-1] += ... *)
Written(zz) == 1..(Len(zz) - 1)

(* one update step whose uplift is added to every node: z += U*dt *)
StepProfileUpliftAll(zz, vel, d, dd, u, e) ==
  [i \in 1..Len(zz) |->
     IF i \in Written(zz)
     THEN RAdd(RAdd(zz[i], Erosion(zz, vel, d, dd, e, i)), RMul(R(u), R(d)))
     ELSE RAdd(zz[i], RMul(R(u), R(d)))]

(* one update step made node by node from the outlet upstream, each node   *)
(* reading the value its downstream neighbour got in the same step         *)
RECURSIVE Sweep(_, _, _, _, _, _, _)
Sweep(zz, vel, d, dd, u, e, i) ==
  IF i < 1 THEN zz
  ELSE Sweep([zz EXCEPT ![i] = RAdd(RAdd(zz[i], Erosion(zz, vel, d, dd, e, i)),
                                    RMul(R(u), R(d)))],
             vel, d, dd, u, e, i - 1)

StepProfileSweep(zz, vel, d, dd, u, e) == Sweep(zz, vel, d, dd, u, e, Len(zz) - 1)

(* lines 121-122: one update step *)
StepProfile(zz, vel, d, dd, u, e) ==
  [i \in 1..Len(zz) |->
     IF i \in Written(zz)
     THEN RAdd(RAdd(zz[i], Erosion(zz, vel, d, dd, e, i)), RMul(R(u), R(d)))
     ELSE zz[i]]

InRange(zz) == \A i \in 1..Len(zz) : Abs(zz[i][1]) <= MaxMag /\ zz[i][2] <= MaxMag

Init ==
  /\ z \in ZSet
  /\ A \in ASet
  /\ dx \in DxSet
  /\ total_time \in TimeSet
  /\ dt \in DtSet
  /\ U \in USet
  /\ K \in KSet
  /\ m \in MSet
  /\ n \in NSet
  /\ v = <<>>
  /\ dt_stable = 0
  /\ nt_iterations = 0
  /\ t = 0
  /\ pc = "velocity"
  /\ err = "none"
  /\ z_in = z
  /\ dt_req = dt
  /\ warned = FALSE
  /\ calls = 1
  /\ prev = <<>>

(* line 109 *)
ComputeVelocity ==
  /\ pc = "velocity"
  /\ v' = Velocity(K, A, m)
  /\ pc' = "stable"
  /\ UNCHANGED <<z, A, dx, total_time, dt, U, K, m, n, dt_stable,
                 nt_iterations, t, err, z_in, dt_req, warned, calls, prev>>

(* line 111: max() of an empty sequence raises ValueError; a zero maximum  *)
(* makes the quotient inf (int() raises OverflowError) or, with dx = 0,    *)
(* nan (int() raises ValueError)                                           *)
StableTimestepRaises ==
  /\ pc = "stable"
  /\ \/ Len(v) = 0 /\ err' = "ValueError"
     \/ Len(v) > 0 /\ ~IsFinite(CflBound(dx, v))
          /\ err' = IF IsNan(CflBound(dx, v)) THEN "ValueError" ELSE "OverflowError"
  /\ pc' = "raised"
  /\ UNCHANGED <<z, A, dx, total_time, dt, U, K, m, n, v, dt_stable,
                 nt_iterations, t, z_in, dt_req, warned, calls, prev>>

(* line 111 *)
StableTimestep ==
  /\ pc = "stable"
  /\ Len(v) > 0
  /\ IsFinite(CflBound(dx, v))
  /\ dt_stable' = Trunc(CflBound(dx, v))
  /\ pc' = "check"
  /\ UNCHANGED <<z, A, dx, total_time, dt, U, K, m, n, v,
                 nt_iterations, t, err, z_in, dt_req, warned, calls, prev>>

(* lines 112-116 *)
CheckTimestep ==
  /\ pc = "check"
  /\ IF dt > dt_stable
     THEN dt' = dt_stable /\ warned' = TRUE
     ELSE UNCHANGED <<dt, warned>>
  /\ pc' = "count"
  /\ UNCHANGED <<z, A, dx, total_time, U, K, m, n, v, dt_stable,
                 nt_iterations, t, err, z_in, dt_req, calls, prev>>

(* line 119 with dt = 0 *)
IterationsRaises ==
  /\ pc = "count"
  /\ dt = 0
  /\ err' = "ZeroDivisionError"
  /\ pc' = "raised"
  /\ UNCHANGED <<z, A, dx, total_time, dt, U, K, m, n, v, dt_stable,
                 nt_iterations, t, z_in, dt_req, warned, calls, prev>>

(* line 119 *)
Iterations ==
  /\ pc = "count"
  /\ dt # 0
  /\ nt_iterations' = IterationCount(total_time, dt)
  /\ t' = 0
  /\ pc' = "loop"
  /\ UNCHANGED <<z, A, dx, total_time, dt, U, K, m, n, v, dt_stable,
                 err, z_in, dt_req, warned, calls, prev>>

(* line 121 when the operands cannot be broadcast *)
StepRaises ==
  /\ pc = "loop"
  /\ LoopRuns(t, nt_iterations)
  /\ ~Broadcastable(Len(v), Len(z))
  /\ err' = "ValueError"
  /\ pc' = "raised"
  /\ UNCHANGED <<z, A, dx, total_time, dt, U, K, m, n, v, dt_stable,
                 nt_iterations, t, z_in, dt_req, warned, calls, prev>>

(* lines 120-122: one pass of the loop body *)
Step ==
  /\ pc = "loop"
  /\ LoopRuns(t, nt_iterations)
  /\ Broadcastable(Len(v), Len(z))
  /\ InRange(z)
  /\ z' = StepProfile(z, v, dt, dx, U, n)
  /\ t' = t + 1
  /\ UNCHANGED <<A, dx, total_time, dt, U, K, m, n, v, dt_stable,
                 nt_iterations, pc, err, z_in, dt_req, warned, calls, prev>>

(* line 123 *)
Return ==
  /\ pc = "loop"
  /\ ~LoopRuns(t, nt_iterations)
  /\ pc' = "done"
  /\ UNCHANGED <<z, A, dx, total_time, dt, U, K, m, n, v, dt_stable,
                 nt_iterations, t, err, z_in, dt_req, warned, calls, prev>>

(* the caller threads the returned profile into a next call (lines         *)
(* 741-748), with a new uplift rate and run time; prev is what the caller  *)
(* knows of the call that returned: the profile it passed (its hard copy   *)
(* of the earlier results), the run time, the uplift rate and the timestep *)
(* that was in effect                                                      *)
Restart ==
  /\ pc = "done"
  /\ calls < MaxCalls
  /\ U' \in USet
  /\ total_time' \in TimeSet
  /\ dt' = dt_req
  /\ z_in' = z
  /\ v' = <<>>
  /\ dt_stable' = 0
  /\ nt_iterations' = 0
  /\ t' = 0
  /\ warned' = FALSE
  /\ calls' = calls + 1
  /\ prev' = [z |-> z_in, T |-> total_time, U |-> U, dt |-> dt]
  /\ pc' = "velocity"
  /\ UNCHANGED <<z, A, dx, K, m, n, err, dt_req>>

Next ==
  \/ ComputeVelocity
  \/ StableTimestepRaises
  \/ StableTimestep
  \/ CheckTimestep
  \/ IterationsRaises
  \/ Iterations
  \/ StepRaises
  \/ Step
  \/ Return
  \/ Restart

Spec == Init /\ [][Next]_vars

-----------------------------------------------------------------------------
(* Vocabulary of the properties *)

(* floor(x) of a finite x *)
Floor(p) == p[1] \div p[2]

(* order of finite reals *)
RLeq(p, q) == IsFinite(p) /\ IsFinite(q) /\ p[1] * q[2] <= q[1] * p[2]

RLess(p, q) == IsFinite(p) /\ IsFinite(q) /\ p[1] * q[2] < q[1] * p[2]

(* how far the call has got *)
PastVelocity == pc # "velocity"

PastStability == pc \in {"check", "count", "loop", "done"}

InLoop == pc \in {"loop", "done"}

Raised == pc = "raised"

Returned == pc = "done"

(* inputs that meet the call contract: equal lengths, positive grid       *)
(* spacing, positive requested timestep, non-negative total time          *)
ValidInput ==
  /\ Len(A) = Len(z)
  /\ dx > 0
  /\ dt_req > 0
  /\ total_time >= 0

(* max(|v|) computed from the inputs K, A and m *)
MaxSpeed == MaxAbs([i \in 1..Len(A) |-> K * AreaPow(A[i], m)])

(* 0.95*dx/max(|v|) as a real number, for max(|v|) > 0 *)
StableBound == <<CflNum * dx, CflDen * MaxSpeed>>

(* the requested timestep exceeds 0.95*dx/max(|v|) *)
ExceedsBound == CflNum * dx < dt_req * CflDen * MaxSpeed

NonOutlet == 1..(Len(z) - 1)

-----------------------------------------------------------------------------
(* C1: no step of any call writes the outlet node: across every           *)
(* transition, of the first call and of the calls the returned profile is *)
(* threaded into, the profile keeps its length and z[N-1] its value.      *)
OutletInvariant ==
  [][Len(z') = Len(z) /\ z'[Len(z)] = z[Len(z)]]_vars

(* a threaded second call has run update steps that changed the profile   *)
OutletWitness ==
  /\ Returned
  /\ calls = 2
  /\ nt_iterations > 0
  /\ Len(z) = MaxLen
  /\ z # z_in
  /\ z[Len(z)] = z_in[Len(z)]

(* C2, as claimed: for valid inputs whose requested dt exceeds            *)
(* 0.95*dx/max(|v|), the integration goes on with dt = floor of that      *)
(* bound and nt_iterations = floor(total_time/dt).                        *)
CflEnforcement ==
  (ValidInput /\ Len(A) > 0 /\ MaxSpeed > 0 /\ ExceedsBound /\ pc \notin {"velocity", "stable", "check", "count"})
    => /\ InLoop
       /\ dt = Floor(StableBound)
       /\ dt # 0
       /\ nt_iterations = Floor(<<total_time * Sgn(dt), Abs(dt)>>)

(* C3: a call whose iteration count is zero (total_time = 0, or           *)
(* |total_time| < |dt| for the timestep in effect) returns the input      *)
(* profile, no update step applied.                                       *)
NoOpLaw ==
  (InLoop /\ dt # 0 /\ Abs(total_time) < Abs(dt)) => (z = z_in /\ t = 0)

(* a call with positive total_time returned after zero passes *)
NoOpWitness ==
  /\ Returned
  /\ ValidInput
  /\ total_time > 0
  /\ dt > total_time
  /\ U > 0
  /\ z = z_in

(* C4, as claimed: for valid inputs with max(|v|) > 0, a call that        *)
(* substituted the stable timestep never ends in an error.                *)
OverrideNeverAborts ==
  (ValidInput /\ Len(A) > 0 /\ MaxSpeed > 0 /\ warned) => ~Raised

(* C5: with max(|v|) = 0 (K = 0, or every drainage area zero and m # 0)   *)
(* the call ends at line 111 in an error, dt_stable is never assigned, no *)
(* later line runs and the profile is the input profile.                  *)
DegenerateVelocity ==
  (PastVelocity /\ Len(A) > 0
     /\ (K = 0 \/ (m # <<0, 1>> /\ \A i \in 1..Len(A) : A[i] = 0)))
    => /\ pc \in {"stable", "raised"}
       /\ Raised => err \in {"OverflowError", "ValueError"}
       /\ dt_stable = 0
       /\ dt = dt_req
       /\ z = z_in

(* K = 0 on otherwise valid inputs with time to simulate: the call raised *)
DegenerateWitness ==
  /\ Raised
  /\ ValidInput
  /\ K = 0
  /\ total_time > 0
  /\ U > 0
  /\ err = "OverflowError"

(* C6, as claimed: with K = 0 and valid inputs the call does not end in   *)
(* an error and returns the input plus U*(iterations*dt) at every         *)
(* non-outlet node.                                                       *)
UpliftOnlyWhenKZero ==
  (ValidInput /\ Len(A) > 0 /\ K = 0 /\ pc \notin {"velocity", "stable"})
    => /\ ~Raised
       /\ Returned => \A i \in NonOutlet :
                        z[i] = RAdd(z_in[i], R(U * (t * dt)))

(* C6, amended: when the velocity of every downstream neighbour v[i+1] is *)
(* zero and dx # 0, the profile after k passes is the input plus          *)
(* U*(k*dt) at every non-outlet node, and a returned call made            *)
(* max(nt_iterations, 0) passes.                                          *)
UpliftOnly ==
  (InLoop /\ dx # 0 /\ Broadcastable(Len(v), Len(z))
     /\ \A i \in 2..Len(v) : v[i] = 0)
    => /\ \A i \in NonOutlet : z[i] = RAdd(z_in[i], R(U * (t * dt)))
       /\ Returned => t = (IF nt_iterations > 0 THEN nt_iterations ELSE 0)

(* drainage area at the head only: max(|v|) > 0, v[1:] = 0, uplift acted  *)
UpliftOnlyWitness ==
  /\ Returned
  /\ ValidInput
  /\ Len(z) = MaxLen
  /\ K > 0
  /\ A[1] > 0
  /\ \A i \in 2..Len(v) : v[i] = 0
  /\ t > 1
  /\ z[1] # z[2]
  /\ z # z_in

(* C7, as claimed: on inputs valid but for dt <= 0 or total_time < 0, the *)
(* call raises nothing, the iteration count is zero or negative and the   *)
(* profile is the input profile.                                          *)
DegenerateTimestepNoOp ==
  (Len(A) = Len(z) /\ dx > 0 /\ Len(A) > 0 /\ MaxSpeed > 0
     /\ (dt_req <= 0 \/ total_time < 0))
    => /\ ~Raised
       /\ InLoop => nt_iterations <= 0
       /\ z = z_in

(* C8, as claimed: with len(z) # len(A) the call fails before the         *)
(* stability analysis: it never gets past line 111, never returns, and    *)
(* the profile is the input profile.                                      *)
ShapeValidation ==
  (Len(A) # Len(z)) => (~PastStability /\ z = z_in)

(* C9, as claimed: with dx <= 0 the call never returns a profile and      *)
(* never mutates it.                                                      *)
GridSpacingValidation ==
  (dx <= 0) => (~Returned /\ z = z_in)

(* C10: steady state for n = 1.  On valid inputs with v[i+1] # 0 at every *)
(* non-outlet node, S(i) = U/(K*A[i+1]^m) and slope(i) =                  *)
(* -(z[i+1]-z[i])/dx:                                                     *)
(*  - a profile with slope(i) = S(i) at every non-outlet node is left     *)
(*    unchanged by an update step;                                        *)
(*  - in a call started from a flat profile, every step keeps             *)
(*    0 <= slope(i) <= slope'(i) <= S(i), and the gap S - slope at the    *)
(*    node next to the outlet shrinks by exactly the factor 1 - c, with   *)
(*    c = |v[N-1]|*dt/dx and 0 < c <= 0.95: the profile approaches the    *)
(*    slope-area relation from below, geometrically.                      *)
SteadySlope(i) == Norm(<<U, K * AreaPow(A[i + 1], m)>>)

NumSlope(zz, i) == RDiv(RNeg(RSub(zz[i + 1], zz[i])), R(dx))

AtSteadyState(zz) == \A i \in 1..(Len(zz) - 1) : NumSlope(zz, i) = SteadySlope(i)

Flat(zz) == \A i \in 1..Len(zz) : zz[i] = zz[Len(zz)]

SlopeGap(zz, i) == RSub(SteadySlope(i), NumSlope(zz, i))

Courant(i) == Norm(<<K * AreaPow(A[i + 1], m) * dt, dx>>)

SteadyCase ==
  /\ n = 1
  /\ ValidInput
  /\ \A i \in 2..Len(A) : K * AreaPow(A[i], m) > 0

SteadyProfileWitness ==
  /\ SteadyCase
  /\ Returned
  /\ Len(z) = MaxLen
  /\ U > 0
  /\ t > 0
  /\ AtSteadyState(z)
  /\ z = z_in

(* C11: with len(A) = len(z), every pass of the loop sets, for every      *)
(* non-outlet node i, z'[i] = z[i] + v[i+1]*dt*(|z[i+1]-z[i]|/dx)^n +     *)
(* U*dt with z[i] and z[i+1] read from the profile before the pass; no    *)
(* other transition changes the profile; and the call returns after       *)
(* exactly max(floor(total_time/dt), 0) passes, dt the timestep in effect.*)
SlopePower(zz, i) ==
  LET s == RDiv(RAbs(RSub(zz[i + 1], zz[i])), R(dx))
  IN  IF n = 1 THEN s ELSE RMul(s, s)

EulerNode(zz, i) ==
  RAdd(RAdd(zz[i], RMul(R(v[i + 1] * dt), SlopePower(zz, i))), R(U * dt))

PassCount ==
  LET k == Floor(<<total_time * Sgn(dt), Abs(dt)>>)
  IN  IF k > 0 THEN k ELSE 0

ExplicitEuler ==
  [][/\ (pc = "loop" /\ t' = t + 1 /\ Len(A) = Len(z))
          => \A i \in NonOutlet : z'[i] = EulerNode(z, i)
     /\ ~(pc = "loop" /\ t' = t + 1) => z' = z
     /\ (pc = "loop" /\ pc' = "done") => t = PassCount]_vars

(* a returned call made several passes over a sloping profile of full     *)
(* length whose two upstream nodes both moved                             *)
ExplicitEulerWitness ==
  /\ Returned
  /\ ValidInput
  /\ Len(z) = MaxLen
  /\ t > 1
  /\ \A i \in 2..Len(v) : v[i] # 0
  /\ z[1] # z_in[1]
  /\ z[2] # z_in[2]
  /\ z[1] # z[2]

(* C12: with dx > 0, a requested dt > 0 and max(|v|) > 0, the timestep in *)
(* effect once the loop is entered is positive and satisfies              *)
(* dt * max(|v|) <= 0.95 * dx, whether or not the override fired.         *)
WithinStabilityBound ==
  (dx > 0 /\ dt_req > 0 /\ Len(A) > 0 /\ MaxSpeed > 0 /\ InLoop)
    => /\ dt > 0
       /\ dt * MaxSpeed * CflDen <= CflNum * dx
       /\ dt <= dt_req

(* update steps ran with a timestep the override had cut down *)
StabilityBoundWitness ==
  /\ Returned
  /\ ValidInput
  /\ warned
  /\ dt < dt_req
  /\ t > 1
  /\ MaxSpeed > 1
  /\ z # z_in

(* C13: restart composition.  A call with total time T2 on the profile    *)
(* returned by a call with total time T1, with dx, A, U, K, m, n and the  *)
(* requested dt the same in both, T1 >= 0 and T2 >= 0 whole multiples of  *)
(* the timestep in effect: the timestep in effect is the same in both     *)
(* calls, and the profile returned is the one a single call with total    *)
(* time T1 + T2 returns from the profile the first call started from,     *)
(* that is (T1 + T2)/dt update steps for dt > 0 and none for dt < 0.      *)
RECURSIVE Passes(_, _)
Passes(zz, k) ==
  IF k <= 0 THEN zz ELSE Passes(StepProfile(zz, v, dt, dx, U, n), k - 1)

SingleCallPasses == IF dt > 0 THEN (prev.T + total_time) \div dt ELSE 0

RestartCase ==
  /\ Returned
  /\ prev # <<>>
  /\ prev.U = U
  /\ prev.T >= 0
  /\ total_time >= 0
  /\ prev.T % Abs(dt) = 0
  /\ total_time % Abs(dt) = 0

RestartComposition ==
  RestartCase => (dt = prev.dt /\ z = Passes(prev.z, SingleCallPasses))

(* two calls that both ran update steps, over a profile of full length    *)
RestartWitness ==
  /\ RestartCase
  /\ ValidInput
  /\ Len(z) = MaxLen
  /\ prev.T > 0
  /\ total_time > 0
  /\ U > 0
  /\ \A i \in 2..Len(v) : v[i] # 0
  /\ z_in # prev.z
  /\ z # z_in

====
